---- MODULE Spec2Model ----
(***************************************************************************)
(* The recruitment API's data-access layer (RecruitmentDAO) over its       *)
(* relational store: application registration, the decision workflow and   *)
(* the filtered, paginated application queries.                            *)
(*                                                                         *)
(* Every public DAO method is one action: the calls of one sequence run    *)
(* one after another on the shared connection.  A method that ends in      *)
(* "catch (err) { log; return null }" is modelled by the result Null.      *)
(*                                                                         *)
(* Dates are day numbers (the order of ISO dates is the order of the       *)
(* numbers).  Serial ids are positions in the table.                       *)
(***************************************************************************)
EXTENDS Integers, Sequences, FiniteSets, TLC

\* ---------------------------------------------------------------- bounds
MaxDate == 3
MaxYears == 0
MaxSeedApps == 30
MaxAppsPerPerson == 2
MaxPage == 3
MaxFailures == 1

\* ------------------------------------------------------ program constants
PAGELIMIT == 25
Invalid == 0
Recruiter == 1
Applicant == 2
NotFound == -1

Unhandled == "Unhandled"
Accepted == "Accepted"
Rejected == "Rejected"
decisionsEnum == {Unhandled, Accepted, Rejected}

\* The value of a method that caught an error: "return null".
Null == [isNull |-> TRUE]

\* Outcome of a call that may throw (a constructor's assertion, a call of
\* something that is not a function).
Returned(v) == [threw |-> FALSE, value |-> v]
Threw == [threw |-> TRUE]

\* The NULL of a nullable column (application_status.recruiter_id).
SqlNull == 0

VARIABLES
    db,             \* the tables of the store
    connected,      \* client._connected
    inTransaction,  \* the connection is between a BEGIN and its COMMIT/ROLLBACK
    last,           \* the last call made (its name, arguments and result),
                    \* or the query that has arrived and is about to be made
    requests,       \* the requests being served concurrently: for each its
                    \* method, arguments, position, locals and result
    queue,          \* the requests whose statement waits in the client's
                    \* query queue, in the order they were sent
    snapshot,       \* the store as it was when the open transaction began
    txOwner,        \* the request whose BEGIN opened the open transaction
    aborted,        \* a statement has failed inside the open transaction
    failures        \* the number of statements that have failed on a live
                    \* connection for a reason of their own

vars == <<db, connected, inTransaction, last, requests, queue, snapshot, txOwner,
          aborted, failures>>

\* The variables of the requests served concurrently.
concVars == <<requests, queue, snapshot, txOwner, aborted, failures>>

\* ------------------------------------------------------------ the store
Dates == 1..MaxDate
Windows == {w \in Dates \X Dates : w[1] <= w[2]}

EmptyTables ==
    [person |-> <<>>, login_info |-> <<>>, job |-> <<>>, competence |-> <<>>,
     application |-> <<>>, application_status |-> <<>>,
     applicant_availability |-> <<>>]

\* pbkdf2 of the password under the salt GLOBAL_SALT_username: equal for
\* equal (username, password), and taken to differ otherwise.
_generatePasswordHash(username, password) == <<username, password>>

\* ------------------------------------------------------ identity resolver
\* A resolver that takes an unknown username for the first person.
_getPersonIDAnyone(d, username) ==
    LET rows == SelectSeq(d.login_info, LAMBDA r : r.username = username)
    IN  IF Len(rows) > 0 THEN rows[1].person_id ELSE 1

_getPersonID(d, username) ==
    LET rows == SelectSeq(d.login_info, LAMBDA r : r.username = username)
    IN  IF Len(rows) > 0 THEN rows[1].person_id ELSE NotFound

_getRoleID(d, personID) ==
    IF personID \in 1..Len(d.person) THEN d.person[personID].role_id ELSE NotFound

\* registerNewApplication calls this.getRoleID, which the class does not
\* define (it defines _getRoleID): the call is a TypeError.
getRoleID(d, personID) == Threw

\* ---------------------------------------------------------- result types
isDecision(decision) == decision \in decisionsEnum

DecisionDTO(decision, errorCode) ==
    IF isDecision(decision)
    THEN Returned([decision |-> decision, errorCode |-> errorCode])
    ELSE Threw

isNonNegativeWholeNumber(value) == value >= 0

isPositiveWholeNumber(value) == value >= 1

RegistrationDTO(applicationID, errorCode) ==
    IF isNonNegativeWholeNumber(applicationID)
    THEN Returned([applicationID |-> applicationID, errorCode |-> errorCode])
    ELSE Threw

\* A method's return value: the object it built, or null when building it threw.
OrNull(outcome) == IF outcome.threw THEN Null ELSE outcome.value

\* -------------------------------------------------------- decision workflow
_checkApplication(d, applicationID) ==
    LET rows == SelectSeq(d.application_status,
                          LAMBDA r : r.application_id = applicationID)
    IN  IF Len(rows) > 0
        THEN [applicationStatusID |-> rows[1].id, decision |-> rows[1].decision]
        ELSE [applicationStatusID |-> NotFound, decision |-> Unhandled]

\* An UPDATE without its WHERE clause: it decides every application.
submitDecisionQueryEveryRow(d, decision, personID, applicationID) ==
    [d EXCEPT !.application_status =
        [i \in 1..Len(@) |-> [@[i] EXCEPT !.decision = decision,
                                          !.recruiter_id = personID]]]

submitDecisionQuery(d, decision, personID, applicationID) ==
    [d EXCEPT !.application_status =
        [i \in 1..Len(@) |->
            IF @[i].application_id = applicationID
            THEN [@[i] EXCEPT !.decision = decision, !.recruiter_id = personID]
            ELSE @[i]]]

\* A workflow that never finds a decision in place.
hasDecisionNever(applicationChecker) == FALSE

hasDecision(applicationChecker) == applicationChecker.decision # Unhandled

\* An "already decided" answer that carries Unhandled instead of the stored decision.
existentDecisionUnhandled(applicationChecker) ==
    DecisionDTO(Unhandled, "ExistentDecision")

existentDecision(applicationChecker) ==
    DecisionDTO(applicationChecker.decision, "ExistentDecision")

\* A method that runs its UPDATE before any check and then reports an
\* invalid decision.
submitApplicationDecisionWritesFirst(d, conn, tx, username, applicationID, decision) ==
    IF ~conn THEN [db |-> d, res |-> Null, tx |-> tx]
    ELSE [db |-> submitDecisionQuery(d, Rejected, _getPersonID(d, username),
                                     applicationID),
          tx |-> FALSE,
          res |-> OrNull(DecisionDTO(Unhandled, "InvalidDecision"))]

\* The method's outcome: the store afterwards, the value returned, and
\* whether a transaction is left open.
submitApplicationDecision(d, conn, tx, username, applicationID, decision) ==
    IF ~conn THEN [db |-> d, res |-> Null, tx |-> tx]
    ELSE
    LET personID == _getPersonID(d, username)
        applicationChecker == _checkApplication(d, applicationID)
    IN  IF personID = NotFound
        THEN [db |-> d, tx |-> FALSE,
              res |-> OrNull(DecisionDTO(Unhandled, "InvalidUsername"))]
        ELSE IF applicationChecker.applicationStatusID = NotFound
        THEN [db |-> d, tx |-> FALSE,
              res |-> OrNull(DecisionDTO(Unhandled, "InvalidApplication"))]
        ELSE IF hasDecision(applicationChecker)
        THEN [db |-> d, tx |-> FALSE,
              res |-> OrNull(existentDecision(applicationChecker))]
        ELSE IF decision # Unhandled /\ decision # Accepted /\ decision # Rejected
        THEN [db |-> d, tx |-> FALSE,
              res |-> OrNull(DecisionDTO(Unhandled, "InvalidDecision"))]
        ELSE [db |-> submitDecisionQuery(d, decision, personID, applicationID),
              tx |-> FALSE,
              res |-> OrNull(DecisionDTO(decision, "OK"))]

\* ------------------------------------------------------------ registration
\* checkCompetenceQuery
checkCompetence(d, competenceID) ==
    SelectSeq(d.competence, LAMBDA r : r.id = competenceID)

\* The WHERE clause of checkApplicationQuery over one row of
\* application JOIN applicant_availability ON the person id:
\* $1 = personID, $2 = competenceID, $3 = dateFrom, $4 = dateTo.
checkApplicationWhere(app, avail, personID, dto) ==
    /\ avail.person_id = app.person_id
    /\ app.person_id = personID
    /\ app.competence_id = dto.competenceID
    /\ avail.from_date <= dto.dateFrom
    /\ avail.to_date >= dto.dateTo

\* The application ids of the rows checkApplicationQuery returns.  The query
\* has no ORDER BY: rows[0] is any one of them.
checkApplication(d, personID, dto) ==
    {d.application[i].id : i \in
        {i \in 1..Len(d.application) :
            \E j \in 1..Len(d.applicant_availability) :
                checkApplicationWhere(d.application[i],
                                      d.applicant_availability[j], personID, dto)}}

\* registerNewApplicationQuery: one statement that inserts the application
\* and its status row.
registerNewApplicationQuery(d, personID, dto) ==
    LET newID == Len(d.application) + 1
    IN  [d EXCEPT
            !.application = Append(@,
                [id |-> newID, person_id |-> personID,
                 competence_id |-> dto.competenceID,
                 years_of_experience |-> dto.yearsOfExperience]),
            !.application_status = Append(@,
                [id |-> Len(d.application_status) + 1, application_id |-> newID,
                 decision |-> Unhandled, recruiter_id |-> SqlNull])]

\* A registration that skips the availability insert.
addNoAvailability(d, personID, dto, applicationID) == d

\* addApplicationAvailabilityQuery.  for_application is not a column: it
\* records which registration wrote the availability row, so that
\* properties can name an application's own window.
addApplicationAvailabilityQuery(d, personID, dto, applicationID) ==
    [d EXCEPT
        !.applicant_availability = Append(@,
            [person_id |-> personID, from_date |-> dto.dateFrom,
             to_date |-> dto.dateTo, for_application |-> applicationID])]

\* A registration that writes the application without its status row.
insertApplicationNoStatus(d, personID, dto) ==
    [d EXCEPT
        !.application = Append(@,
            [id |-> Len(d.application) + 1, person_id |-> personID,
             competence_id |-> dto.competenceID,
             years_of_experience |-> dto.yearsOfExperience]),
        !.applicant_availability = Append(@,
            [person_id |-> personID, from_date |-> dto.dateFrom,
             to_date |-> dto.dateTo, for_application |-> Len(d.application) + 1])]

\* registerNewApplicationQuery followed by addApplicationAvailabilityQuery.
insertApplication(d, personID, dto) ==
    addApplicationAvailabilityQuery(registerNewApplicationQuery(d, personID, dto),
                                    personID, dto, Len(d.application) + 1)

\* The statements behind "if (!errorChecker)": the set of possible outcomes
\* (one for each row the duplicate query may return first).
checkAndInsert(d, personID, dto) ==
    LET checkApplicationRes == checkApplication(d, personID, dto)
        checkCompetenceRes == checkCompetence(d, dto.competenceID)
    IN  IF Len(checkCompetenceRes) <= 0
        THEN {[db |-> d, tx |-> FALSE,
               res |-> OrNull(RegistrationDTO(0, "InvalidCompetence"))]}
        ELSE IF Cardinality(checkApplicationRes) > 0
        THEN {[db |-> d, tx |-> FALSE,
               res |-> OrNull(RegistrationDTO(id, "ExistentApplication"))] :
                    id \in checkApplicationRes}
        ELSE {[db |-> insertApplication(d, personID, dto), tx |-> FALSE,
               res |-> OrNull(RegistrationDTO(Len(d.application) + 1, "OK"))]}

registerNewApplication(d, conn, tx, dto) ==
    IF ~conn THEN {[db |-> d, res |-> Null, tx |-> tx]}
    ELSE
    LET personID == _getPersonID(d, dto.username)
    IN  IF personID = NotFound
        THEN {[db |-> d, tx |-> FALSE,
               res |-> OrNull(RegistrationDTO(0, "InvalidUsername"))]}
        ELSE LET roleID == getRoleID(d, personID)
             IN  IF roleID.threw
                 THEN {[db |-> d, tx |-> FALSE, res |-> Null]}
                 ELSE IF roleID.value = NotFound \/ roleID.value = Recruiter
                 THEN {[db |-> d, tx |-> FALSE,
                        res |-> OrNull(RegistrationDTO(0, "InvalidRole"))]}
                 ELSE checkAndInsert(d, personID, dto)

\* registerNewApplication of the DAO revision without the role lookup: the
\* same statements, run for every known username.  The store the server
\* starts on was filled through it.
registerNewApplicationNoRole(d, dto) ==
    LET personID == _getPersonID(d, dto.username)
    IN  IF personID = NotFound
        THEN {[db |-> d, tx |-> FALSE,
               res |-> OrNull(RegistrationDTO(0, "InvalidUsername"))]}
        ELSE checkAndInsert(d, personID, dto)

\* The store after the registration requests reqs[i], reqs[i + 1], ... made
\* in order until it holds n applications or the requests are used up.
RECURSIVE Registered(_, _, _, _)
Registered(d, reqs, i, n) ==
    IF Len(d.application) >= n \/ i > Len(reqs) THEN d
    ELSE Registered((CHOOSE o \in registerNewApplicationNoRole(d, reqs[i]) : TRUE).db,
                    reqs, i + 1, n)

\* ---------------------------------------------------------- users and jobs
isIntegerBetween(value, lowerLimit, upperLimit) ==
    value >= lowerLimit /\ value <= upperLimit

UserDTO(username, roleID, errorCode) ==
    IF isIntegerBetween(roleID, 0, 2)
    THEN Returned([username |-> username, roleID |-> roleID, errorCode |-> errorCode])
    ELSE Threw

SignupDTO(firstName, lastName, email, username, password) ==
    [firstName |-> firstName, lastName |-> lastName, email |-> email,
     username |-> username, password |-> password]

\* A login check without its WHERE clause: every credential matches.
checkLoginEveryRow(d, username, passwordHash) ==
    [i \in 1..Len(d.login_info) |->
        [username |-> d.login_info[i].username,
         role_id |-> d.person[d.login_info[i].person_id].role_id]]

\* checkLoginQuery: login_info JOIN person, on the username and the hash.
checkLogin(d, username, passwordHash) ==
    LET rows == SelectSeq(d.login_info,
                    LAMBDA r : r.username = username /\ r.password = passwordHash)
    IN  [i \in 1..Len(rows) |->
            [username |-> rows[i].username,
             role_id |-> d.person[rows[i].person_id].role_id]]

\* A signin that deletes the credentials it has looked through.
signinUserForgets(d, conn, tx, username, password) ==
    IF ~conn THEN [db |-> d, res |-> Null, tx |-> tx]
    ELSE [db |-> [d EXCEPT !.login_info = <<>>], tx |-> FALSE,
          res |-> OrNull(UserDTO(username, Invalid, "LoginFailure"))]

signinUser(d, conn, tx, username, password) ==
    LET passwordHash == _generatePasswordHash(username, password)
    IN  IF ~conn THEN [db |-> d, res |-> Null, tx |-> tx]
        ELSE
        LET results == checkLogin(d, username, passwordHash)
            retValue == IF Len(results) <= 0
                        THEN UserDTO(username, Invalid, "LoginFailure")
                        ELSE UserDTO(results[1].username, results[1].role_id, "OK")
        IN  [db |-> d, res |-> OrNull(retValue), tx |-> retValue.threw]

\* An email check that finds no row.
checkEmailFindsNone(d, email) == <<>>

\* checkEmailQuery and checkUsernameQuery
checkEmail(d, email) == SelectSeq(d.login_info, LAMBDA r : r.email = email)

checkUsername(d, username) == SelectSeq(d.login_info, LAMBDA r : r.username = username)

\* An insert that makes the new person a recruiter.
enterNewRecruiter(d, signupDTO, roleID) ==
    LET newID == Len(d.person) + 1
    IN  [d EXCEPT
            !.person = Append(@,
                [id |-> newID, first_name |-> signupDTO.firstName,
                 last_name |-> signupDTO.lastName, role_id |-> Recruiter]),
            !.login_info = Append(@,
                [username |-> signupDTO.username, person_id |-> newID,
                 email |-> signupDTO.email,
                 password |-> _generatePasswordHash(signupDTO.username,
                                                    signupDTO.password)])]

\* enterNewUser: one statement that inserts the person and the credential.
enterNewUser(d, signupDTO, roleID) ==
    LET newID == Len(d.person) + 1
    IN  [d EXCEPT
            !.person = Append(@,
                [id |-> newID, first_name |-> signupDTO.firstName,
                 last_name |-> signupDTO.lastName, role_id |-> roleID]),
            !.login_info = Append(@,
                [username |-> signupDTO.username, person_id |-> newID,
                 email |-> signupDTO.email,
                 password |-> _generatePasswordHash(signupDTO.username,
                                                    signupDTO.password)])]

signupUser(d, conn, tx, signupDTO) ==
    IF ~conn THEN [db |-> d, res |-> Null, tx |-> tx]
    ELSE
    LET emailCheck == checkEmail(d, signupDTO.email)
        usernameCheck == checkUsername(d, signupDTO.username)
    IN  IF Len(emailCheck) > 0
        THEN [db |-> d, tx |-> FALSE,
              res |-> OrNull(UserDTO(signupDTO.username, Invalid, "ExistentEmail"))]
        ELSE IF Len(usernameCheck) > 0
        THEN [db |-> d, tx |-> FALSE,
              res |-> OrNull(UserDTO(signupDTO.username, Invalid, "ExistentUsername"))]
        ELSE [db |-> enterNewUser(d, signupDTO, Applicant), tx |-> FALSE,
              res |-> OrNull(UserDTO(signupDTO.username, Applicant, "OK"))]

isCompetence(value) == isPositiveWholeNumber(value.id)

JobDTO(jobID, description, competences) ==
    IF /\ isPositiveWholeNumber(jobID)
       /\ \A i \in 1..Len(competences) : isCompetence(competences[i])
    THEN Returned([jobID |-> jobID, description |-> description,
                   competences |-> competences])
    ELSE Threw

\* getJobCompetencesQuery
getJobCompetences(d, jobID) ==
    LET rows == SelectSeq(d.competence, LAMBDA r : r.job_id = jobID)
    IN  [i \in 1..Len(rows) |-> [id |-> rows[i].id, type |-> rows[i].type]]

getJobs(d, conn, tx) ==
    IF ~conn THEN [db |-> d, res |-> Null, tx |-> tx]
    ELSE
    LET jobs == [i \in 1..Len(d.job) |->
                    JobDTO(d.job[i].id, d.job[i].name, getJobCompetences(d, d.job[i].id))]
    IN  IF \E i \in 1..Len(jobs) : jobs[i].threw
        THEN [db |-> d, res |-> Null, tx |-> TRUE]
        ELSE [db |-> d, tx |-> FALSE,
              res |-> [isNull |-> FALSE, jobs |-> [i \in 1..Len(jobs) |-> jobs[i].value]]]

\* ------------------------------------------------------ application detail
\* from_date.toISOString().slice(0, 10): the driver reads a DATE column as
\* local midnight and toISOString prints it in UTC, which is the day before
\* when the local zone is ahead of UTC.
toISODate(date, east) == IF east THEN date - 1 ELSE date

\* The rows of getApplicationQuery: application JOIN person JOIN competence
\* JOIN applicant_availability (on the person id) JOIN application_status.
getApplicationRows(d, applicationID) ==
    {[application_id |-> d.application[a].id,
      first_name |-> d.person[p].first_name,
      last_name |-> d.person[p].last_name,
      competence_id |-> d.competence[c].id,
      type |-> d.competence[c].type,
      years_of_experience |-> d.application[a].years_of_experience,
      from_date |-> d.applicant_availability[v].from_date,
      to_date |-> d.applicant_availability[v].to_date,
      decision |-> d.application_status[s].decision] :
        <<a, p, c, v, s>> \in
            {t \in (1..Len(d.application)) \X (1..Len(d.person))
                   \X (1..Len(d.competence)) \X (1..Len(d.applicant_availability))
                   \X (1..Len(d.application_status)) :
                /\ d.application[t[1]].id = applicationID
                /\ d.application[t[1]].person_id = d.person[t[2]].id
                /\ d.application[t[1]].competence_id = d.competence[t[3]].id
                /\ d.applicant_availability[t[4]].person_id = d.application[t[1]].person_id
                /\ d.application_status[t[5]].application_id = d.application[t[1]].id}}

\* ORDER BY applicant_availability.to_date ASC: rows[0] is a row of least to_date.
firstByToDate(rows) == {r \in rows : \A q \in rows : r.to_date <= q.to_date}

ApplicationDTO(applicationID, firstName, lastName, competence, yearsOfExperience, dateFrom, dateTo, decision, errorCode) ==
    IF /\ isPositiveWholeNumber(applicationID)
       /\ isPositiveWholeNumber(competence.id)
       /\ yearsOfExperience >= 0
       /\ isDecision(decision)
    THEN Returned([applicationID |-> applicationID, firstName |-> firstName,
                   lastName |-> lastName, competence |-> competence,
                   yearsOfExperience |-> yearsOfExperience,
                   dateFrom |-> dateFrom, dateTo |-> dateTo,
                   decision |-> decision, errorCode |-> errorCode])
    ELSE Threw

\* The placeholder of an application that was not found.
dummyApplication(applicationID) ==
    ApplicationDTO(applicationID, "DUMMY", "DUMMY", [id |-> 999999, type |-> "DUMMY"],
                   0, 12121212, 12121212, Unhandled, "InvalidID")

\* The DTO of the row the query returned first.
foundApplication(row, east) ==
    ApplicationDTO(row.application_id, row.first_name, row.last_name,
                   [id |-> row.competence_id, type |-> row.type],
                   row.years_of_experience,
                   toISODate(row.from_date, east), toISODate(row.to_date, east),
                   row.decision, "OK")

\* BEGIN, the query, the DTO, COMMIT: a DTO that throws skips the COMMIT.
getApplicationReturn(d, outcome) ==
    [db |-> d, res |-> OrNull(outcome), tx |-> outcome.threw]

getApplication(d, conn, tx, east, applicationID) ==
    IF ~conn THEN {[db |-> d, res |-> Null, tx |-> tx]}
    ELSE
    LET applicationRes == getApplicationRows(d, applicationID)
    IN  IF Cardinality(applicationRes) <= 0
        THEN {getApplicationReturn(d, dummyApplication(applicationID))}
        ELSE {getApplicationReturn(d, foundApplication(r, east)) :
                    r \in firstByToDate(applicationRes)}

\* ---------------------------------------------------- application queries
\* filterEmptyParamEnum: the values of an ApplicationFilterDTO field that
\* stand for "no filter" (and, for the page, "all applications").
EmptyName == "NONE"
EmptyCompetenceID == 0
EmptyDate == 0
EmptyPage == 0

\* The empty string where a date is expected.
NoDate == -1

\* The head of _getApplications: the empty values become the values the
\* query tests for ('' for the name and the dates, -1 for the competence).
queryValues(dto) ==
    [name |-> IF dto.name = EmptyName THEN "" ELSE dto.name,
     competenceID |-> IF dto.competenceID = EmptyCompetenceID THEN -1 ELSE dto.competenceID,
     dateFrom |-> IF dto.dateFrom = EmptyDate THEN NoDate ELSE dto.dateFrom,
     dateTo |-> IF dto.dateTo = EmptyDate THEN NoDate ELSE dto.dateTo]

\* A WHERE clause without the test of the role.
getApplicationsWhereAnyRole(person, app, avail, values) ==
    /\ app.person_id = person.id
    /\ avail.person_id = person.id
    /\ IF values.name # ""
       THEN person.first_name = values.name \/ person.last_name = values.name
       ELSE TRUE
    /\ IF values.competenceID # -1
       THEN app.competence_id = values.competenceID
       ELSE TRUE
    /\ IF values.dateFrom # NoDate
       THEN avail.from_date >= values.dateFrom
       ELSE TRUE
    /\ IF values.dateTo # NoDate
       THEN avail.to_date <= values.dateTo
       ELSE TRUE

\* The WHERE clause of getApplicationsQuery over one row of
\* person JOIN application JOIN applicant_availability:
\* $1 = name, $2 = competenceID, $3 = dateFrom, $4 = dateTo.
getApplicationsWhere(person, app, avail, values) ==
    /\ app.person_id = person.id
    /\ avail.person_id = person.id
    /\ IF values.name # ""
       THEN person.first_name = values.name \/ person.last_name = values.name
       ELSE TRUE
    /\ IF values.competenceID # -1
       THEN app.competence_id = values.competenceID
       ELSE TRUE
    /\ IF values.dateFrom # NoDate
       THEN avail.from_date >= values.dateFrom
       ELSE TRUE
    /\ IF values.dateTo # NoDate
       THEN avail.to_date <= values.dateTo
       ELSE TRUE
    /\ person.role_id = 2

\* The rows of one application, one for each availability row of its owner
\* that passes the WHERE clause.
rowsOfApplication(d, app, values) ==
    LET person == d.person[app.person_id]
        passing == SelectSeq(d.applicant_availability,
                        LAMBDA v : getApplicationsWhere(person, app, v, values))
    IN  [i \in 1..Len(passing) |->
            [application_id |-> app.id, first_name |-> person.first_name,
             last_name |-> person.last_name]]

\* ORDER BY application.id ASC.
RECURSIVE rowsFrom(_, _, _)
rowsFrom(d, a, values) ==
    IF a > Len(d.application) THEN <<>>
    ELSE rowsOfApplication(d, d.application[a], values) \o rowsFrom(d, a + 1, values)

\* A query that is sent without looking at the connection.
_getApplicationsUnchecked(d, conn, dto) ==
    [isNull |-> FALSE, rows |-> rowsFrom(d, 1, queryValues(dto))]

\* null when the connection is down, else the result of the query.
_getApplications(d, conn, dto) ==
    IF ~conn THEN Null ELSE [isNull |-> FALSE, rows |-> rowsFrom(d, 1, queryValues(dto))]

\* An offset that takes the pages to be counted from 0.
_getOffsetFromZero(page, limit) == page * limit

_getOffset(page, limit) == (page - 1) * limit

isApplication(application) == isPositiveWholeNumber(application.applicationID)

ApplicationsListDTO(applications) ==
    IF \A i \in 1..Len(applications) : isApplication(applications[i])
    THEN Returned([applications |-> applications])
    ELSE Threw

\* for (i = 0; i < PAGELIMIT; i++) { if (i + offset >= length) break; ... }
RECURSIVE limitLoop(_, _, _)
limitLoop(applicationsList, offset, i) ==
    IF i >= PAGELIMIT \/ i + offset >= Len(applicationsList) THEN <<>>
    ELSE <<applicationsList[i + offset + 1]>> \o limitLoop(applicationsList, offset, i + 1)

\* Reading rowCount of the null that _getApplications returns when the
\* connection is down throws, and the method returns null.
getApplicationsList(d, conn, tx, dto) ==
    LET offset == _getOffset(dto.page, PAGELIMIT)
        applicationsRes == _getApplications(d, conn, dto)
    IN  IF applicationsRes.isNull
        THEN [db |-> d, res |-> Null, tx |-> tx]
        ELSE
        LET applicationsList ==
                [i \in 1..Len(applicationsRes.rows) |->
                    [applicationID |-> applicationsRes.rows[i].application_id,
                     firstName |-> applicationsRes.rows[i].first_name,
                     lastName |-> applicationsRes.rows[i].last_name]]
            retList == IF dto.page > EmptyPage
                       THEN limitLoop(applicationsList, offset, 0)
                       ELSE applicationsList
        IN  [db |-> d, res |-> OrNull(ApplicationsListDTO(retList)), tx |-> FALSE]

\* Math.ceil(rowCount / limit)
ceilDiv(rowCount, limit) ==
    IF rowCount % limit = 0 THEN rowCount \div limit ELSE rowCount \div limit + 1

getPageCount(d, conn, tx, dto) ==
    LET applicationsRes == _getApplications(d, conn, dto)
    IN  IF applicationsRes.isNull
        THEN [db |-> d, res |-> Null, tx |-> tx]
        ELSE [db |-> d, tx |-> FALSE,
              res |-> [isNull |-> FALSE,
                       pageCount |-> ceilDiv(Len(applicationsRes.rows), PAGELIMIT)]]

\* Controller._createApplicationFilterDTO: '' and 0 become the empty values.
_createApplicationFilterDTO(name, competenceId, dateFrom, dateTo, page) ==
    [name |-> IF name = "" THEN EmptyName ELSE name,
     competenceID |-> IF competenceId = 0 THEN EmptyCompetenceID ELSE competenceId,
     dateFrom |-> IF dateFrom = NoDate THEN EmptyDate ELSE dateFrom,
     dateTo |-> IF dateTo = NoDate THEN EmptyDate ELSE dateTo,
     page |-> IF page = 0 THEN EmptyPage ELSE page]

\* No request is being served concurrently.
NoRequests ==
    /\ requests = <<>>
    /\ queue = <<>>
    /\ snapshot = EmptyTables
    /\ txOwner = 0
    /\ aborted = FALSE
    /\ failures = 0

\* ------------------------------------------------------------ the workflow
\* The store the server is started on: two persons with their credentials,
\* the competences, and the applications registered so far.
BaseTables ==
    [EmptyTables EXCEPT
        !.person = <<[id |-> 1, first_name |-> "Alice", last_name |-> "Berg",
                      role_id |-> Applicant],
                     [id |-> 2, first_name |-> "Rita", last_name |-> "Ek",
                      role_id |-> Recruiter]>>,
        !.login_info = <<[username |-> "alice", person_id |-> 1,
                          email |-> "alice@x.se",
                          password |-> _generatePasswordHash("alice", "pw")],
                         [username |-> "rita", person_id |-> 2,
                          email |-> "rita@x.se",
                          password |-> _generatePasswordHash("rita", "pw")]>>,
        !.job = <<[id |-> 1, name |-> "Developer"]>>,
        !.competence = <<[id |-> 1, type |-> "Java", job_id |-> 1],
                         [id |-> 2, type |-> "Sales", job_id |-> 1]>>]

ApplicationInfoDTO(username, competenceID, yearsOfExperience, dateFrom, dateTo) ==
    [username |-> username, competenceID |-> competenceID,
     yearsOfExperience |-> yearsOfExperience, dateFrom |-> dateFrom, dateTo |-> dateTo]

\* Earlier registrations, in the order they were made; the store holds
\* the ones of a run that made some of them.
SeedRequests ==
    <<ApplicationInfoDTO("alice", 1, 1, 1, 2),
      ApplicationInfoDTO("alice", 1, 0, 2, 3)>>

Made(S) ==
    LET F[i \in 0..Len(SeedRequests)] ==
            IF i = 0 THEN <<>>
            ELSE IF i \in S THEN Append(F[i - 1], SeedRequests[i]) ELSE F[i - 1]
    IN  F[Len(SeedRequests)]

Init ==
    /\ \E S \in SUBSET (1..Len(SeedRequests)) :
            db = Registered(BaseTables, Made(S), 1, Len(Made(S)))
    /\ connected = TRUE
    /\ inTransaction = FALSE
    /\ last = [op |-> "none"]
    /\ NoRequests

\* The arguments of the calls.
Usernames == {"alice", "rita", "zed"}
CompetenceIDs == 1..(Len(db.competence) + 1)
ApplicationIDs == 0..(Len(db.application) + 1)
Decisions == decisionsEnum \cup {"Maybe"}
Passwords == {"pw", "guess"}
SignupUsernames == {"alice", "zed"}
SignupEmails == {"alice@x.se", "zed@x.se"}

RegisterNewApplication ==
    \E username \in Usernames, competenceID \in CompetenceIDs,
       yearsOfExperience \in 0..MaxYears, w \in Windows :
        LET dto == ApplicationInfoDTO(username, competenceID, yearsOfExperience,
                                      w[1], w[2])
        IN  \E o \in registerNewApplication(db, connected, inTransaction, dto) :
                /\ db' = o.db
                /\ inTransaction' = o.tx
                /\ last' = [op |-> "registerNewApplication", dto |-> dto, res |-> o.res]
                /\ UNCHANGED <<connected, concVars>>

SubmitApplicationDecision ==
    \E username \in Usernames, applicationID \in ApplicationIDs, decision \in Decisions :
        LET o == submitApplicationDecision(db, connected, inTransaction,
                                           username, applicationID, decision)
        IN  /\ db' = o.db
            /\ inTransaction' = o.tx
            /\ last' = [op |-> "submitApplicationDecision", username |-> username,
                        applicationID |-> applicationID, decision |-> decision,
                        res |-> o.res]
            /\ UNCHANGED <<connected, concVars>>

GetApplication ==
    \E applicationID \in ApplicationIDs, east \in BOOLEAN :
        \E o \in getApplication(db, connected, inTransaction, east, applicationID) :
            /\ db' = o.db
            /\ inTransaction' = o.tx
            /\ last' = [op |-> "getApplication", applicationID |-> applicationID,
                        res |-> o.res]
            /\ UNCHANGED <<connected, concVars>>

SigninUser ==
    \E username \in Usernames, password \in Passwords :
        LET o == signinUser(db, connected, inTransaction, username, password)
        IN  /\ db' = o.db
            /\ inTransaction' = o.tx
            /\ last' = [op |-> "signinUser", username |-> username,
                        password |-> password, res |-> o.res]
            /\ UNCHANGED <<connected, concVars>>

SignupUser ==
    \E username \in SignupUsernames, email \in SignupEmails :
        LET signupDTO == SignupDTO("Zed", "Ek", email, username, "pw")
            o == signupUser(db, connected, inTransaction, signupDTO)
        IN  /\ db' = o.db
            /\ inTransaction' = o.tx
            /\ last' = [op |-> "signupUser", dto |-> signupDTO, res |-> o.res]
            /\ UNCHANGED <<connected, concVars>>

GetJobs ==
    LET o == getJobs(db, connected, inTransaction)
    IN  /\ db' = o.db
        /\ inTransaction' = o.tx
        /\ last' = [op |-> "getJobs", res |-> o.res]
        /\ UNCHANGED <<connected, concVars>>

\* The 'error' event of the client: the connection is lost.
ConnectionError ==
    /\ connected
    /\ connected' = FALSE
    /\ UNCHANGED <<db, inTransaction, last, concVars>>

Next ==
    \/ RegisterNewApplication
    \/ SubmitApplicationDecision
    \/ GetApplication
    \/ ConnectionError

Spec == Init /\ [][Next]_vars

\* The parameters of a query as the controller receives them: '' for no
\* name and no date, 0 for no competence and for all pages.
QueryNames == {"", "Anna", "Berg"}
QueryDates == {NoDate, MaxDate - 1}

\* ------------------------------------------------- every public operation
\* The eight public operations, called one after another on a store that
\* holds one application.
ListApplications ==
    \E name \in QueryNames, competenceId \in 0..1, dateFrom \in QueryDates,
       dateTo \in QueryDates, page \in 0..1 :
        LET dto == _createApplicationFilterDTO(name, competenceId, dateFrom, dateTo, page)
            o == getApplicationsList(db, connected, inTransaction, dto)
        IN  /\ db' = o.db
            /\ inTransaction' = o.tx
            /\ last' = [op |-> "getApplicationsList", dto |-> dto, res |-> o.res]
            /\ UNCHANGED <<connected, concVars>>

GetApplicationsPageCount ==
    \E name \in QueryNames, competenceId \in 0..1, dateFrom \in QueryDates,
       dateTo \in QueryDates :
        LET dto == _createApplicationFilterDTO(name, competenceId, dateFrom, dateTo, 0)
            o == getPageCount(db, connected, inTransaction, dto)
        IN  /\ db' = o.db
            /\ inTransaction' = o.tx
            /\ last' = [op |-> "getPageCount", dto |-> dto, res |-> o.res]
            /\ UNCHANGED <<connected, concVars>>

OpsInit ==
    /\ db = Registered(BaseTables, SeedRequests, 1, 1)
    /\ connected = TRUE
    /\ inTransaction = FALSE
    /\ last = [op |-> "none"]
    /\ NoRequests

OpsNext ==
    \/ SigninUser
    \/ SignupUser
    \/ GetJobs
    \/ RegisterNewApplication
    \/ ListApplications
    \/ GetApplicationsPageCount
    \/ GetApplication
    \/ SubmitApplicationDecision
    \/ ConnectionError

OpsSpec == OpsInit /\ [][OpsNext]_vars

\* ------------------------------------------------------- the /job endpoints
\* The authorization cookie of a request: absent, or a token that
\* jwt.verify accepts or rejects, carrying the UserDTO it was signed with.
NoCookie == [present |-> FALSE]

AuthCookie(valid, username, roleID) ==
    [present |-> TRUE, valid |-> valid,
     userDTO |-> [username |-> username, roleID |-> roleID]]

verifyAuthCookie(authCookie) ==
    IF ~authCookie.present THEN Null
    ELSE IF ~authCookie.valid THEN Null
    ELSE authCookie.userDTO

verifyApplicantAuthorization(authCookie) ==
    IF ~authCookie.present THEN Null
    ELSE IF ~authCookie.valid THEN Null
    ELSE IF authCookie.userDTO.roleID = Applicant THEN authCookie.userDTO
    ELSE Null

\* An authorization that accepts the token of any role.
verifyAnyAuthorization(authCookie) == verifyAuthCookie(authCookie)

verifyRecruiterAuthorization(authCookie) ==
    IF ~authCookie.present THEN Null
    ELSE IF ~authCookie.valid THEN Null
    ELSE IF authCookie.userDTO.roleID = Recruiter THEN authCookie.userDTO
    ELSE Null

\* No response has been sent: the handler returned without sending one.
NoResponse == 0

\* An error handler that answers like the last-resort ErrorResponseSender.
ErrorResponseSender(headersSent) == IF headersSent THEN NoResponse ELSE 500

\* JobErrorHandler: the error middleware of /job/, reached through next(err).
JobErrorHandler(headersSent) == IF headersSent THEN NoResponse ELSE 503

\* RequestHandler.sendHttpResponse: the status sent, or the error handler's
\* answer when the status is refused.
sendHttpResponse(status) ==
    IF isIntegerBetween(status, 200, 501) THEN status ELSE JobErrorHandler(FALSE)

\* What a handler did: the status the client receives, the controller
\* method it called ("none" if it called none) and what that returned.
Handled(d, tx, status, core, coreRes) ==
    [db |-> d, tx |-> tx, status |-> status, core |-> core, coreRes |-> coreRes]

\* What the handler of POST /job/registerApplication does with the
\* RegistrationDTO the controller returned: null is thrown to the error
\* middleware, four codes have a branch that sends a response, and any
\* other code falls through the branches without one.
registerApplicationStatus(registrationDTO) ==
    IF registrationDTO = Null THEN JobErrorHandler(FALSE)
    ELSE IF registrationDTO.errorCode = "OK" THEN sendHttpResponse(200)
    ELSE IF registrationDTO.errorCode = "ExistentApplication" THEN sendHttpResponse(400)
    ELSE IF registrationDTO.errorCode = "InvalidUsername" THEN sendHttpResponse(400)
    ELSE IF registrationDTO.errorCode = "InvalidCompetence" THEN sendHttpResponse(400)
    ELSE NoResponse

\* POST /job/registerApplication
registerApplicationHandler(d, conn, tx, req) ==
    IF ~req.fieldsValid
    THEN {Handled(d, tx, sendHttpResponse(400), "none", Null)}
    ELSE
    LET userDTO == verifyApplicantAuthorization(req.cookie)
    IN  IF userDTO = Null
        THEN {Handled(d, tx, sendHttpResponse(401), "none", Null)}
        ELSE
        {Handled(o.db, o.tx, registerApplicationStatus(o.res),
            "registerApplication", o.res) :
          o \in registerNewApplication(d, conn, tx,
                    ApplicationInfoDTO(userDTO.username, req.competenceId,
                        req.yearsOfExperience, req.dateFrom, req.dateTo))}

\* GET /job/listApplications
listApplicationsHandler(d, conn, tx, req) ==
    IF ~req.fieldsValid
    THEN Handled(d, tx, sendHttpResponse(400), "none", Null)
    ELSE
    LET userDTO == verifyRecruiterAuthorization(req.cookie)
    IN  IF userDTO = Null
        THEN Handled(d, tx, sendHttpResponse(401), "none", Null)
        ELSE
        LET o == getApplicationsList(d, conn, tx,
                    _createApplicationFilterDTO(req.name, req.competenceId,
                        req.dateFrom, req.dateTo, req.page))
        IN  Handled(o.db, o.tx,
                IF o.res = Null THEN JobErrorHandler(FALSE) ELSE sendHttpResponse(200),
                "listApplications", o.res)

\* GET /job/getApplicationsPageCount
getApplicationsPageCountHandler(d, conn, tx, req) ==
    IF ~req.fieldsValid
    THEN Handled(d, tx, sendHttpResponse(400), "none", Null)
    ELSE
    LET userDTO == verifyRecruiterAuthorization(req.cookie)
    IN  IF userDTO = Null
        THEN Handled(d, tx, sendHttpResponse(401), "none", Null)
        ELSE
        LET o == getPageCount(d, conn, tx,
                    _createApplicationFilterDTO(req.name, req.competenceId,
                        req.dateFrom, req.dateTo, 0))
        IN  Handled(o.db, o.tx,
                IF o.res = Null THEN JobErrorHandler(FALSE) ELSE sendHttpResponse(200),
                "getApplicationsPageCount", o.res)

\* GET /job/getApplication
getApplicationHandler(d, conn, tx, east, req) ==
    IF ~req.fieldsValid
    THEN {Handled(d, tx, sendHttpResponse(400), "none", Null)}
    ELSE
    LET userDTO == verifyRecruiterAuthorization(req.cookie)
    IN  IF userDTO = Null
        THEN {Handled(d, tx, sendHttpResponse(401), "none", Null)}
        ELSE
        {Handled(o.db, o.tx,
            IF o.res = Null THEN JobErrorHandler(FALSE)
            ELSE IF o.res.errorCode = "OK" THEN sendHttpResponse(200)
            ELSE IF o.res.errorCode = "InvalidID" THEN sendHttpResponse(400)
            ELSE NoResponse,
            "getApplication", o.res) :
          o \in getApplication(d, conn, tx, east, req.applicationId)}

\* GET /job/getJobs
getJobsHandler(d, conn, tx, req) ==
    LET userDTO == verifyAuthCookie(req.cookie)
    IN  IF userDTO = Null
        THEN Handled(d, tx, sendHttpResponse(401), "none", Null)
        ELSE
        LET o == getJobs(d, conn, tx)
        IN  Handled(o.db, o.tx,
                IF o.res = Null THEN JobErrorHandler(FALSE) ELSE sendHttpResponse(200),
                "getJobs", o.res)

\* The cookies a request may carry.
Cookies ==
    {NoCookie} \cup
    {AuthCookie(valid, u[1], u[2]) :
        valid \in BOOLEAN,
        u \in {<<"alice", Applicant>>, <<"rita", Recruiter>>, <<"zed", Applicant>>}}

\* The handler's outcome h for the request req to the endpoint op.
Respond(op, req, h) ==
    /\ db' = h.db
    /\ inTransaction' = h.tx
    /\ last' = [op |-> op, req |-> req, status |-> h.status, core |-> h.core,
                res |-> h.coreRes]
    /\ UNCHANGED <<connected, concVars>>

PostRegisterApplication ==
    \E cookie \in Cookies, fieldsValid \in BOOLEAN, competenceId \in 1..3, w \in Windows :
        LET req == [cookie |-> cookie, fieldsValid |-> fieldsValid,
                    competenceId |-> competenceId, yearsOfExperience |-> 0,
                    dateFrom |-> w[1], dateTo |-> w[2]]
        IN  \E h \in registerApplicationHandler(db, connected, inTransaction, req) :
                Respond("POST /job/registerApplication", req, h)

GetListApplications ==
    \E cookie \in Cookies, fieldsValid \in BOOLEAN, name \in QueryNames, page \in 0..1 :
        LET req == [cookie |-> cookie, fieldsValid |-> fieldsValid, name |-> name,
                    competenceId |-> 0, dateFrom |-> NoDate, dateTo |-> NoDate,
                    page |-> page]
        IN  Respond("GET /job/listApplications", req,
                    listApplicationsHandler(db, connected, inTransaction, req))

GetGetApplicationsPageCount ==
    \E cookie \in Cookies, fieldsValid \in BOOLEAN, name \in QueryNames :
        LET req == [cookie |-> cookie, fieldsValid |-> fieldsValid, name |-> name,
                    competenceId |-> 0, dateFrom |-> NoDate, dateTo |-> NoDate]
        IN  Respond("GET /job/getApplicationsPageCount", req,
                    getApplicationsPageCountHandler(db, connected, inTransaction, req))

GetGetApplication ==
    \E cookie \in Cookies, fieldsValid \in BOOLEAN, applicationId \in ApplicationIDs,
       east \in BOOLEAN :
        LET req == [cookie |-> cookie, fieldsValid |-> fieldsValid,
                    applicationId |-> applicationId]
        IN  \E h \in getApplicationHandler(db, connected, inTransaction, east, req) :
                Respond("GET /job/getApplication", req, h)

GetGetJobs ==
    \E cookie \in Cookies :
        LET req == [cookie |-> cookie, fieldsValid |-> TRUE]
        IN  Respond("GET /job/getJobs", req,
                    getJobsHandler(db, connected, inTransaction, req))

ApiNext ==
    \/ PostRegisterApplication
    \/ GetListApplications
    \/ GetGetApplicationsPageCount
    \/ GetGetApplication
    \/ GetGetJobs
    \/ ConnectionError

ApiSpec == Init /\ [][ApiNext]_vars

\* ------------------------------------- the answer to a controller result
\* The error codes the registration builds a RegistrationDTO with.
RegistrationCodes ==
    {"OK", "InvalidUsername", "InvalidRole", "InvalidCompetence",
     "ExistentApplication"}

\* The values the controller can hand the handler of
\* POST /job/registerApplication: null, or a RegistrationDTO with one of
\* the codes and an application id.
ControllerResults ==
    {Null} \cup {OrNull(RegistrationDTO(id, errorCode)) :
                    id \in 0..MaxSeedApps, errorCode \in RegistrationCodes}

\* The handler of POST /job/registerApplication, past the field validation
\* and the applicant authorization, is handed a result by the controller
\* and answers it.  The step is the handler's part only: what the core did
\* to the store on the way to that result is not part of it.
RegisterApplicationAnswers ==
    \E cookie \in Cookies, registrationDTO \in ControllerResults :
        LET req == [cookie |-> cookie, fieldsValid |-> TRUE]
        IN  /\ verifyApplicantAuthorization(cookie) # Null
            /\ last' = [op |-> "registerApplication answer", req |-> req,
                        status |-> registerApplicationStatus(registrationDTO),
                        core |-> "registerApplication", res |-> registrationDTO]
            /\ UNCHANGED <<db, connected, inTransaction, concVars>>

AnswerNext == RegisterApplicationAnswers

AnswerSpec == Init /\ [][AnswerNext]_vars

\* ------------------------------------------------------------ the queries
\* A store with np persons (the first a recruiter, the others applicants)
\* and k competences.
personRow(i) ==
    [id |-> i,
     first_name |-> IF i % 2 = 1 THEN "Anna" ELSE "Bo",
     last_name |-> IF i % 3 = 0 THEN "Anna" ELSE "Berg",
     role_id |-> IF i = 1 THEN Recruiter ELSE Applicant]

QueryTables(np, k) ==
    [EmptyTables EXCEPT
        !.person = [i \in 1..np |-> personRow(i)],
        !.login_info = [i \in 1..np |->
                            [username |-> ToString(i), person_id |-> i,
                             email |-> ToString(i),
                             password |-> _generatePasswordHash(ToString(i), "pw")]],
        !.job = <<[id |-> 1, name |-> "Developer"]>>,
        !.competence = [i \in 1..k |-> [id |-> i, type |-> "Java", job_id |-> 1]]]

\* n registrations, k by each person in turn, one for each competence,
\* each with a window of its own.
QueryRequests(n, k) ==
    [i \in 1..n |->
        ApplicationInfoDTO(ToString(((i - 1) \div k) + 1), ((i - 1) % k) + 1, 0,
                           1 + (i % MaxDate), MaxDate)]

QueryInit ==
    /\ \E n \in 0..MaxSeedApps, k \in 1..MaxAppsPerPerson :
            db = Registered(QueryTables(ceilDiv(n, k), k), QueryRequests(n, k), 1, n)
    /\ connected = TRUE
    /\ inTransaction = FALSE
    /\ NoRequests
    /\ \E name \in QueryNames, competenceId \in 0..MaxAppsPerPerson,
          dateFrom \in QueryDates, dateTo \in QueryDates, page \in 0..MaxPage :
            last = [op |-> "pending",
                    dto |-> _createApplicationFilterDTO(name, competenceId,
                                                        dateFrom, dateTo, page)]

GetApplicationsList ==
    /\ last.op = "pending"
    /\ LET o == getApplicationsList(db, connected, inTransaction, last.dto)
       IN  /\ db' = o.db
           /\ inTransaction' = o.tx
           /\ last' = [op |-> "getApplicationsList", dto |-> last.dto, res |-> o.res]
    /\ UNCHANGED <<connected, concVars>>

\* The controller asks for the page count with page 0.
GetPageCount ==
    /\ last.op = "pending"
    /\ last.dto.page = EmptyPage
    /\ LET o == getPageCount(db, connected, inTransaction, last.dto)
       IN  /\ db' = o.db
           /\ inTransaction' = o.tx
           /\ last' = [op |-> "getPageCount", dto |-> last.dto, res |-> o.res]
    /\ UNCHANGED <<connected, concVars>>

QueryNext ==
    \/ GetApplicationsList
    \/ GetPageCount
    \/ ConnectionError

QuerySpec == QueryInit /\ [][QueryNext]_vars

\* ------------------------------------------- requests served concurrently
\* The DAO methods statement by statement.  A request sends one statement
\* and waits for it (await this._runQuery); the client runs the statements
\* of all requests on the one connection in the order they were sent.  The
\* position of a request is the statement it waits for.
RequestIDs == {1, 2}

BeginLabels == {"BEGIN", "_getPersonID.BEGIN", "_checkApplication.BEGIN"}
CommitLabels == {"COMMIT", "_getPersonID.COMMIT", "_checkApplication.COMMIT"}

Request(op, args, loc) ==
    [op |-> op, args |-> args, loc |-> loc, pc |-> "start", res |-> Null,
     sent |-> <<>>]

\* The request sends the statement pc.
Goto(r, pc) == [r EXCEPT !.pc = pc, !.sent = Append(@, pc)]

\* The method returns res.
Finish(r, res) == [r EXCEPT !.pc = "done", !.res = res]

\* The method builds its return value and sends the statement pc; a
\* constructor that throws takes it to its catch, which returns null.
Build(r, outcome, pc) ==
    IF outcome.threw THEN Finish(r, Null)
    ELSE Goto([r EXCEPT !.loc.ret = outcome.value], pc)

\* signupUser after its statement r.pc has run on the store d.
signupUserAfter(r, d) ==
    LET signupDTO == r.args.dto
    IN  CASE r.pc = "BEGIN" -> {Goto(r, "checkEmailQuery")}
          [] r.pc = "checkEmailQuery" ->
                {Goto([r EXCEPT !.loc.emailCheck = Len(checkEmail(d, signupDTO.email))],
                      "checkUsernameQuery")}
          [] r.pc = "checkUsernameQuery" ->
                IF r.loc.emailCheck > 0
                THEN {Build(r, UserDTO(signupDTO.username, Invalid, "ExistentEmail"),
                            "COMMIT")}
                ELSE IF Len(checkUsername(d, signupDTO.username)) > 0
                THEN {Build(r, UserDTO(signupDTO.username, Invalid, "ExistentUsername"),
                            "COMMIT")}
                ELSE {Goto(r, "enterNewUser")}
          [] r.pc = "enterNewUser" ->
                {Build(r, UserDTO(signupDTO.username, Applicant, "OK"), "COMMIT")}
          [] OTHER -> {Finish(r, r.loc.ret)}

\* submitApplicationDecision after its statement r.pc has run on the store d.
submitApplicationDecisionAfter(r, d) ==
    CASE r.pc = "BEGIN" -> {Goto(r, "_getPersonID.BEGIN")}
      [] r.pc = "_getPersonID.BEGIN" -> {Goto(r, "_getPersonID.query")}
      [] r.pc = "_getPersonID.query" ->
            {Goto([r EXCEPT !.loc.personID = _getPersonID(d, r.args.username)],
                  "_getPersonID.COMMIT")}
      [] r.pc = "_getPersonID.COMMIT" -> {Goto(r, "_checkApplication.BEGIN")}
      [] r.pc = "_checkApplication.BEGIN" -> {Goto(r, "_checkApplication.query")}
      [] r.pc = "_checkApplication.query" ->
            {Goto([r EXCEPT !.loc.applicationChecker =
                                _checkApplication(d, r.args.applicationID)],
                  "_checkApplication.COMMIT")}
      [] r.pc = "_checkApplication.COMMIT" ->
            IF r.loc.personID = NotFound
            THEN {Build(r, DecisionDTO(Unhandled, "InvalidUsername"), "COMMIT")}
            ELSE IF r.loc.applicationChecker.applicationStatusID = NotFound
            THEN {Build(r, DecisionDTO(Unhandled, "InvalidApplication"), "COMMIT")}
            ELSE IF hasDecision(r.loc.applicationChecker)
            THEN {Build(r, existentDecision(r.loc.applicationChecker), "COMMIT")}
            ELSE IF /\ r.args.decision # Unhandled
                    /\ r.args.decision # Accepted
                    /\ r.args.decision # Rejected
            THEN {Build(r, DecisionDTO(Unhandled, "InvalidDecision"), "COMMIT")}
            ELSE {Goto(r, "submitDecisionQuery")}
      [] r.pc = "submitDecisionQuery" ->
            {Build(r, DecisionDTO(r.args.decision, "OK"), "COMMIT")}
      [] OTHER -> {Finish(r, r.loc.ret)}

\* registerNewApplication after its statement r.pc has run on the store d:
\* the method of RecruitmentDAO.js when r.args.roleLookup, and the one of
\* the revision without the role lookup otherwise.
registerNewApplicationAfter(r, d) ==
    LET dto == r.args.dto
    IN  CASE r.pc = "BEGIN" -> {Goto(r, "_getPersonID.BEGIN")}
          [] r.pc = "_getPersonID.BEGIN" -> {Goto(r, "_getPersonID.query")}
          [] r.pc = "_getPersonID.query" ->
                {Goto([r EXCEPT !.loc.personID = _getPersonID(d, dto.username)],
                      "_getPersonID.COMMIT")}
          [] r.pc = "_getPersonID.COMMIT" ->
                IF r.loc.personID = NotFound
                THEN {Build(r, RegistrationDTO(0, "InvalidUsername"), "COMMIT")}
                ELSE IF r.args.roleLookup
                THEN LET roleID == getRoleID(d, r.loc.personID)
                     IN  IF roleID.threw THEN {Finish(r, Null)}
                         ELSE IF roleID.value = NotFound \/ roleID.value = Recruiter
                         THEN {Build(r, RegistrationDTO(0, "InvalidRole"), "COMMIT")}
                         ELSE {Goto(r, "checkApplicationQuery")}
                ELSE {Goto(r, "checkApplicationQuery")}
          [] r.pc = "checkApplicationQuery" ->
                {Goto([r EXCEPT !.loc.checkApplicationRes =
                                    checkApplication(d, r.loc.personID, dto)],
                      "checkCompetenceQuery")}
          [] r.pc = "checkCompetenceQuery" ->
                IF Len(checkCompetence(d, dto.competenceID)) <= 0
                THEN {Build(r, RegistrationDTO(0, "InvalidCompetence"), "COMMIT")}
                ELSE IF Cardinality(r.loc.checkApplicationRes) > 0
                THEN {Build(r, RegistrationDTO(id, "ExistentApplication"), "COMMIT") :
                        id \in r.loc.checkApplicationRes}
                ELSE {Goto(r, "registerNewApplicationQuery")}
          [] r.pc = "registerNewApplicationQuery" ->
                {Goto([r EXCEPT !.loc.applicationID = Len(d.application)],
                      "addApplicationAvailabilityQuery")}
          [] r.pc = "addApplicationAvailabilityQuery" ->
                {Build(r, RegistrationDTO(r.loc.applicationID, "OK"), "COMMIT")}
          [] OTHER -> {Finish(r, r.loc.ret)}

\* getApplication after its statement r.pc has run on the store d.
getApplicationAfter(r, d) ==
    CASE r.pc = "BEGIN" -> {Goto(r, "getApplicationQuery")}
      [] r.pc = "getApplicationQuery" ->
            LET applicationRes == getApplicationRows(d, r.args.applicationID)
            IN  IF Cardinality(applicationRes) <= 0
                THEN {Build(r, dummyApplication(r.args.applicationID), "COMMIT")}
                ELSE {Build(r, foundApplication(row, r.args.east), "COMMIT") :
                        row \in firstByToDate(applicationRes)}
      [] OTHER -> {Finish(r, r.loc.ret)}

\* The request after its statement has run: a ROLLBACK was sent by
\* _runQuery, which rethrows the error to the method's catch.
After(r, d) ==
    IF r.pc = "ROLLBACK" THEN {Finish(r, Null)}
    ELSE CASE r.op = "signupUser" -> signupUserAfter(r, d)
           [] r.op = "submitApplicationDecision" -> submitApplicationDecisionAfter(r, d)
           [] r.op = "registerNewApplication" -> registerNewApplicationAfter(r, d)
           [] OTHER -> getApplicationAfter(r, d)

\* The store after the statement r.pc of the request r has run on it.
Effect(r, d) ==
    CASE r.pc = "enterNewUser" -> enterNewUser(d, r.args.dto, Applicant)
      [] r.pc = "submitDecisionQuery" ->
            submitDecisionQuery(d, r.args.decision, r.loc.personID, r.args.applicationID)
      [] r.pc = "registerNewApplicationQuery" ->
            registerNewApplicationQuery(d, r.loc.personID, r.args.dto)
      [] r.pc = "addApplicationAvailabilityQuery" ->
            addApplicationAvailabilityQuery(d, r.loc.personID, r.args.dto,
                                            r.loc.applicationID)
      [] OTHER -> d

\* A request arrives: the method checks the connection and sends its BEGIN.
Arrived(r) ==
    IF connected
    THEN [requests |-> Append(requests, Goto(r, "BEGIN")),
          queue |-> Append(queue, Len(requests) + 1)]
    ELSE [requests |-> Append(requests, Finish(r, Null)), queue |-> queue]

arrivalFrame == <<db, connected, inTransaction, last, snapshot, txOwner, aborted, failures>>

SignupArrives ==
    /\ Len(requests) < Cardinality(RequestIDs)
    /\ \E username \in SignupUsernames, email \in SignupEmails :
        LET a == Arrived(Request("signupUser",
                    [dto |-> SignupDTO("Zed", "Zorn", email, username, "pw")],
                    [emailCheck |-> 0, ret |-> Null]))
        IN  requests' = a.requests /\ queue' = a.queue
    /\ UNCHANGED arrivalFrame

DecisionArrives ==
    /\ Len(requests) < Cardinality(RequestIDs)
    /\ \E decision \in {Accepted, Rejected} :
        LET a == Arrived(Request("submitApplicationDecision",
                    [username |-> "rita", applicationID |-> 1, decision |-> decision],
                    [personID |-> NotFound,
                     applicationChecker |-> [applicationStatusID |-> NotFound,
                                             decision |-> Unhandled],
                     ret |-> Null]))
        IN  requests' = a.requests /\ queue' = a.queue
    /\ UNCHANGED arrivalFrame

RegistrationArrives ==
    /\ Len(requests) < Cardinality(RequestIDs)
    /\ \E roleLookup \in BOOLEAN, from \in {1, MaxDate} :
        LET a == Arrived(Request("registerNewApplication",
                    [dto |-> ApplicationInfoDTO("alice", 1, 0, from, from),
                     roleLookup |-> roleLookup],
                    [personID |-> NotFound, checkApplicationRes |-> {},
                     applicationID |-> 0, ret |-> Null]))
        IN  requests' = a.requests /\ queue' = a.queue
    /\ UNCHANGED arrivalFrame

DetailArrives ==
    /\ Len(requests) < Cardinality(RequestIDs)
    /\ \E applicationID \in {0, 1} :
        LET a == Arrived(Request("getApplication",
                    [applicationID |-> applicationID, east |-> FALSE],
                    [ret |-> Null]))
        IN  requests' = a.requests /\ queue' = a.queue
    /\ UNCHANGED arrivalFrame

\* The server runs the statement at the head of the queue and the request
\* that sent it goes on to its next statement.  A BEGIN inside a transaction
\* and a COMMIT or ROLLBACK outside one change nothing (the server warns);
\* a COMMIT of an aborted transaction rolls it back.
ExecuteStatement ==
    /\ queue # <<>>
    /\ connected
    /\ LET id == Head(queue)
           r == requests[id]
       IN  /\ aborted => r.pc \in CommitLabels \cup {"ROLLBACK"}
           /\ IF r.pc \in BeginLabels
              THEN /\ db' = db
                   /\ inTransaction' = TRUE
                   /\ snapshot' = IF inTransaction THEN snapshot ELSE db
                   /\ txOwner' = IF inTransaction THEN txOwner ELSE id
                   /\ aborted' = aborted
              ELSE IF r.pc \in CommitLabels \cup {"ROLLBACK"}
              THEN /\ db' = IF inTransaction /\ (aborted \/ r.pc = "ROLLBACK")
                            THEN snapshot ELSE db
                   /\ inTransaction' = FALSE
                   /\ snapshot' = EmptyTables
                   /\ txOwner' = 0
                   /\ aborted' = FALSE
              ELSE /\ db' = Effect(r, db)
                   /\ UNCHANGED <<inTransaction, snapshot, txOwner, aborted>>
           /\ \E r2 \in After(r, db') :
                /\ requests' = [requests EXCEPT ![id] = r2]
                /\ queue' = IF r2.pc = "done" THEN Tail(queue)
                            ELSE Append(Tail(queue), id)
    /\ UNCHANGED <<connected, last, failures>>

\* The statement at the head of the queue fails: the connection is down, the
\* transaction it runs in is aborted, or the server rejects it (a timeout, a
\* constraint).  It writes nothing and aborts the open transaction.
\* _runQuery sends a ROLLBACK if the connection is up and rethrows; the
\* method's catch returns null.
StatementFails ==
    /\ queue # <<>>
    /\ LET id == Head(queue)
           r == requests[id]
           forced == \/ ~connected
                     \/ aborted /\ r.pc \notin CommitLabels \cup {"ROLLBACK"}
       IN  /\ forced \/ failures < MaxFailures
           /\ failures' = IF forced THEN failures ELSE failures + 1
           /\ aborted' = (connected /\ inTransaction)
           /\ IF connected /\ r.pc # "ROLLBACK"
              THEN /\ requests' = [requests EXCEPT ![id] = Goto(r, "ROLLBACK")]
                   /\ queue' = Append(Tail(queue), id)
              ELSE /\ requests' = [requests EXCEPT ![id] = Finish(r, Null)]
                   /\ queue' = Tail(queue)
    /\ UNCHANGED <<db, connected, inTransaction, last, snapshot, txOwner>>

\* The connection's error event while requests are being served: the server
\* discards the open transaction.
ConnectionLost ==
    /\ connected
    /\ connected' = FALSE
    /\ db' = IF inTransaction THEN snapshot ELSE db
    /\ inTransaction' = FALSE
    /\ snapshot' = EmptyTables
    /\ txOwner' = 0
    /\ aborted' = FALSE
    /\ UNCHANGED <<last, requests, queue, failures>>

ConnInit ==
    /\ db = Registered(BaseTables, SeedRequests, 1, 1)
    /\ connected = TRUE
    /\ inTransaction = FALSE
    /\ last = [op |-> "none"]
    /\ NoRequests

ConnNext ==
    \/ SignupArrives
    \/ DecisionArrives
    \/ RegistrationArrives
    \/ DetailArrives
    \/ ExecuteStatement
    \/ StatementFails
    \/ ConnectionLost

ConnSpec == ConnInit /\ [][ConnNext]_vars

\* ------------------------------------------------- properties: vocabulary
\* The step is a call of the method op (a call changes the record of the
\* last call, unless it repeats a call that changed nothing).
Called(op) == last' # last /\ last'.op = op

IsNullResult(res) == res = Null

KnownUsername(d, username) ==
    \E i \in 1..Len(d.login_info) : d.login_info[i].username = username

PersonOf(d, username) ==
    (CHOOSE r \in {d.login_info[i] : i \in 1..Len(d.login_info)} :
        r.username = username).person_id

RoleOf(d, username) == d.person[PersonOf(d, username)].role_id

ExistingCompetence(d, competenceID) ==
    \E i \in 1..Len(d.competence) : d.competence[i].id = competenceID

ApplicationIDsOf(d) == {d.application[i].id : i \in 1..Len(d.application)}

StatusRowsOf(d, applicationID) ==
    {r \in {d.application_status[i] : i \in 1..Len(d.application_status)} :
        r.application_id = applicationID}

\* The window an application was registered with.
RegisteredWindows(d, applicationID) ==
    {<<v.from_date, v.to_date>> :
        v \in {r \in {d.applicant_availability[i] :
                        i \in 1..Len(d.applicant_availability)} :
                    r.for_application = applicationID}}

Overlap(w1, w2) == w1[1] <= w2[2] /\ w1[2] >= w2[1]

\* The applications of a person for a competence whose own window overlaps w.
OverlappingApplications(d, personID, competenceID, w) ==
    {a \in ApplicationIDsOf(d) :
        /\ d.application[a].person_id = personID
        /\ d.application[a].competence_id = competenceID
        /\ \E w1 \in RegisteredWindows(d, a) : Overlap(w1, w)}

\* ------------------------------------------------------------ C1
\* C1: over any sequence of registerNewApplication and
\* submitApplicationDecision calls, the stored decision of an application
\* changes only from Unhandled to Accepted or from Unhandled to Rejected;
\* once it is Accepted or Rejected no call changes it.
C1_DecisionLeavesOnlyUnhandled ==
    [][\A i \in 1..Len(db.application_status) :
        /\ i <= Len(db'.application_status)
        /\ db'.application_status[i].application_id = db.application_status[i].application_id
        /\ db'.application_status[i].decision # db.application_status[i].decision
            => /\ db.application_status[i].decision = Unhandled
               /\ db'.application_status[i].decision \in {Accepted, Rejected}]_vars

\* A decided application has just been submitted the other decision and
\* still holds the first one.
C1_Witness ==
    /\ last.op = "submitApplicationDecision"
    /\ last.decision \in {Accepted, Rejected}
    /\ \E r \in StatusRowsOf(db, last.applicationID) :
            r.decision \in {Accepted, Rejected} /\ r.decision # last.decision

\* ------------------------------------------------------------ C2
\* C2 as stated: once an application's decision is Accepted or Rejected, a
\* submitApplicationDecision call for it that reaches the store returns
\* ExistentDecision with the stored decision, for every username and every
\* decision argument.
C2_EveryUsernameGetsExistentDecision ==
    [][(/\ Called("submitApplicationDecision")
        /\ connected)
        => \A r \in StatusRowsOf(db, last'.applicationID) :
              r.decision \in {Accepted, Rejected}
                => last'.res = [decision |-> r.decision, errorCode |-> "ExistentDecision"]]_vars

\* C2 amended: the same for every username that belongs to a credential
\* (an unknown username gets InvalidUsername before the decision is looked at).
C2_KnownUsernameGetsExistentDecision ==
    [][(/\ Called("submitApplicationDecision")
        /\ connected
        /\ KnownUsername(db, last'.username))
        => \A r \in StatusRowsOf(db, last'.applicationID) :
              r.decision \in {Accepted, Rejected}
                => last'.res = [decision |-> r.decision, errorCode |-> "ExistentDecision"]]_vars

\* An applicant's username and another decision were submitted for a decided
\* application, and the call answered ExistentDecision with the stored decision.
C2_Witness ==
    /\ last.op = "submitApplicationDecision"
    /\ ~IsNullResult(last.res)
    /\ last.res.errorCode = "ExistentDecision"
    /\ last.res.decision # last.decision
    /\ \E r \in StatusRowsOf(db, last.applicationID) : r.decision = last.res.decision

\* ------------------------------------------------------------ C3
\* C3: when an applicant p holds an application for an existing competence c
\* registered with a window that overlaps [f2, t2], registerApplication(p, c,
\* _, f2, t2) returns ExistentApplication with that application's id and
\* inserts no row.
C3_OverlapIsExistentApplication ==
    [][(/\ Called("registerNewApplication")
        /\ connected
        /\ KnownUsername(db, last'.dto.username)
        /\ RoleOf(db, last'.dto.username) = Applicant
        /\ ExistingCompetence(db, last'.dto.competenceID)
        /\ OverlappingApplications(db, PersonOf(db, last'.dto.username),
                last'.dto.competenceID, <<last'.dto.dateFrom, last'.dto.dateTo>>) # {})
        => /\ db' = db
           /\ \E a \in OverlappingApplications(db, PersonOf(db, last'.dto.username),
                    last'.dto.competenceID, <<last'.dto.dateFrom, last'.dto.dateTo>>) :
                last'.res = [applicationID |-> a, errorCode |-> "ExistentApplication"]]_vars

\* ------------------------------------------------------------ C4
\* C4: registerApplication by an applicant for an existing competence c and
\* a window [f, t] returns OK with an id no application has yet, whenever
\* the applicant holds no application for c whose own window overlaps
\* [f, t], whatever the applicant holds for other competences.
C4_NoOverlapIsOK ==
    [][(/\ Called("registerNewApplication")
        /\ connected
        /\ KnownUsername(db, last'.dto.username)
        /\ RoleOf(db, last'.dto.username) = Applicant
        /\ ExistingCompetence(db, last'.dto.competenceID)
        /\ OverlappingApplications(db, PersonOf(db, last'.dto.username),
                last'.dto.competenceID, <<last'.dto.dateFrom, last'.dto.dateTo>>) = {})
        => /\ ~IsNullResult(last'.res)
           /\ last'.res.errorCode = "OK"
           /\ last'.res.applicationID \notin ApplicationIDsOf(db)
           /\ last'.res.applicationID \in ApplicationIDsOf(db')]_vars

\* ------------------------------------------------------------ C5
\* C5: registerApplication with the username of a person whose role is not
\* Applicant returns InvalidRole with applicationId 0, whether or not the
\* competence exists, and inserts no row.
C5_NonApplicantIsInvalidRole ==
    [][(/\ Called("registerNewApplication")
        /\ connected
        /\ KnownUsername(db, last'.dto.username)
        /\ RoleOf(db, last'.dto.username) # Applicant)
        => /\ db' = db
           /\ last'.res = [applicationID |-> 0, errorCode |-> "InvalidRole"]]_vars

C10_UnknownIdIsInvalidID ==
    [][(/\ Called("getApplication")
        /\ connected
        /\ last'.applicationID \notin ApplicationIDsOf(db))
        => /\ ~IsNullResult(last'.res)
           /\ last'.res.errorCode = "InvalidID"]_vars

\* ------------------------------------------------------------ C7, C8, C9
\* The applications that match a filter: the owner is an applicant, the
\* name is the owner's first or last name, the competence is the
\* application's, and the application's window lies within the dates; a
\* field with its empty value does not filter.
Matches(d, a, dto) ==
    LET owner == d.person[d.application[a].person_id]
    IN  /\ owner.role_id = Applicant
        /\ dto.name # EmptyName
            => (owner.first_name = dto.name \/ owner.last_name = dto.name)
        /\ dto.competenceID # EmptyCompetenceID
            => d.application[a].competence_id = dto.competenceID
        /\ \A w \in RegisteredWindows(d, a) :
            /\ dto.dateFrom # EmptyDate => w[1] >= dto.dateFrom
            /\ dto.dateTo # EmptyDate => w[2] <= dto.dateTo

\* Their ids in ascending order.
MatchingIDs(d, dto) ==
    SelectSeq([i \in 1..Len(d.application) |-> d.application[i].id],
              LAMBDA a : Matches(d, a, dto))

ReturnedIDs(res) == [i \in 1..Len(res.applications) |-> res.applications[i].applicationID]

Min(x, y) == IF x <= y THEN x ELSE y

\* C7: getApplicationsPageCount(filter) returns ceil(N / 25), N the number
\* of applications that match the filter.
C7_PageCountIsCeilOfMatching ==
    (last.op = "getPageCount" /\ connected)
        => /\ ~IsNullResult(last.res)
           /\ LET N == Len(MatchingIDs(db, last.dto))
              IN  /\ last.res.pageCount * PAGELIMIT >= N
                  /\ (last.res.pageCount - 1) * PAGELIMIT < N

\* C8: for a page k >= 1, listApplications(filter, k) returns the rows at
\* positions [(k-1)*25, min(k*25, N)) of the N matching applications in
\* ascending id order, the empty list past the last page, never null.
C8_PageIsSliceOfMatching ==
    (last.op = "getApplicationsList" /\ connected /\ last.dto.page >= 1)
        => /\ ~IsNullResult(last.res)
           /\ LET ids == MatchingIDs(db, last.dto)
                  k == last.dto.page
              IN  ReturnedIDs(last.res) =
                    SubSeq(ids, (k - 1) * PAGELIMIT + 1, Min(k * PAGELIMIT, Len(ids)))

\* C9: listApplications with page 0 returns all N matching applications,
\* unsliced, in ascending id order.
C9_PageZeroIsAllMatching ==
    (last.op = "getApplicationsList" /\ connected /\ last.dto.page = 0)
        => /\ ~IsNullResult(last.res)
           /\ ReturnedIDs(last.res) = MatchingIDs(db, last.dto)

\* ------------------------------------------------------------ C11
\* C11: in every reachable state every application has exactly one
\* application-status row, and every application-status row refers to an
\* existing application.
C11_OneStatusRowPerApplication ==
    /\ \A a \in ApplicationIDsOf(db) :
        Cardinality({i \in 1..Len(db.application_status) :
                        db.application_status[i].application_id = a}) = 1
    /\ \A i \in 1..Len(db.application_status) :
        db.application_status[i].application_id \in ApplicationIDsOf(db)

\* The store holds two applications and a decision has just been stored.
C11_Witness ==
    /\ Len(db.application) = 2
    /\ last.op = "submitApplicationDecision"
    /\ ~IsNullResult(last.res)
    /\ last.res.errorCode = "OK"

\* ------------------------------------------------------------ C14
\* C14: a submitApplicationDecision call made with the username of a person
\* whose role is not Recruiter never changes the stored decision or
\* recruiter of any application.
C14_NonRecruiterChangesNoDecision ==
    [][(/\ Called("submitApplicationDecision")
        /\ KnownUsername(db, last'.username)
        /\ RoleOf(db, last'.username) # Recruiter)
        => db'.application_status = db.application_status]_vars

\* ------------------------------------------------------------ C16
\* C16: once the connection's error event has fired, every public operation
\* returns the null result and sends no statement: the store and the
\* transaction state of the connection are as before the call.
C16_DownMeansNull ==
    [][(~connected /\ last' # last)
        => /\ IsNullResult(last'.res)
           /\ db' = db
           /\ inTransaction' = inTransaction]_vars

\* The connection is down and a list query has just returned null.
C16_Witness ==
    /\ ~connected
    /\ last.op = "getApplicationsList"
    /\ IsNullResult(last.res)

\* ------------------------------------------------------------ C15, C17
\* The role an endpoint is reserved to.
GatedEndpoints ==
    {"POST /job/registerApplication", "GET /job/listApplications",
     "GET /job/getApplicationsPageCount", "GET /job/getApplication"}

RequiredRole(op) ==
    IF op = "POST /job/registerApplication" THEN Applicant ELSE Recruiter

\* The request carries a valid token of the role the endpoint is reserved to.
Authorized(op, req) ==
    /\ req.cookie.present
    /\ req.cookie.valid
    /\ req.cookie.userDTO.roleID = RequiredRole(op)

\* C15 as stated: a role-gated /job endpoint calls the controller only for
\* a request with a valid token of the endpoint's role; any other request
\* is answered 401 and calls no controller method.
C15_UnauthorizedIs401 ==
    last.op \in GatedEndpoints
        => /\ last.core # "none" => Authorized(last.op, last.req)
           /\ ~Authorized(last.op, last.req)
                => (last.status = 401 /\ last.core = "none")

\* C15 amended: the controller is called only for a request with a valid
\* token of the endpoint's role; any other request calls no controller
\* method and is answered 401, or 400 when its fields are malformed (the
\* fields are validated before the token is looked at).
C15_UnauthorizedIs401Or400 ==
    last.op \in GatedEndpoints
        => /\ last.core # "none" => Authorized(last.op, last.req)
           /\ ~Authorized(last.op, last.req)
                => /\ last.core = "none"
                   /\ last.status = IF last.req.fieldsValid THEN 401 ELSE 400

\* A well-formed detail request with a valid applicant token was answered
\* 401 without a call of the controller.
C15_Witness ==
    /\ last.op = "GET /job/getApplication"
    /\ last.req.fieldsValid
    /\ last.req.cookie.present
    /\ last.req.cookie.valid
    /\ last.req.cookie.userDTO.roleID = Applicant
    /\ last.status = 401
    /\ last.core = "none"

JobEndpoints == GatedEndpoints \cup {"GET /job/getJobs"}

\* C17: when the controller returns null to a /job handler, the client
\* receives 503, never 200 or 400.
C17_NullIs503 ==
    (last.op \in JobEndpoints /\ last.core # "none" /\ IsNullResult(last.res))
        => last.status = 503

\* A registration request of an applicant reached the controller over a
\* live connection, got null and was answered 503.
C17_Witness ==
    /\ last.op = "POST /job/registerApplication"
    /\ connected
    /\ last.core = "registerApplication"
    /\ IsNullResult(last.res)
    /\ last.status = 503

\* ------------------------------------------- properties: concurrent requests
\* The request r has returned the DTO with this error code.
ReturnedCode(r, errorCode) ==
    r.pc = "done" /\ r.res # Null /\ r.res.errorCode = errorCode

\* No request waits for a statement and no transaction is open.
Quiescent == queue = <<>> /\ ~inTransaction

\* C13: once the concurrent signupUser requests have returned, no two
\* credentials share a username or an email, and of two signups with the
\* same username (or the same email) at most one has returned OK.
C13_ConcurrentSignupsStayUnique ==
    Quiescent =>
        /\ \A i, j \in 1..Len(db.login_info) :
                i # j => /\ db.login_info[i].username # db.login_info[j].username
                         /\ db.login_info[i].email # db.login_info[j].email
        /\ \A i, j \in 1..Len(requests) :
                (/\ i # j
                 /\ requests[i].op = "signupUser"
                 /\ requests[j].op = "signupUser"
                 /\ \/ requests[i].args.dto.username = requests[j].args.dto.username
                    \/ requests[i].args.dto.email = requests[j].args.dto.email)
                => ~(ReturnedCode(requests[i], "OK") /\ ReturnedCode(requests[j], "OK"))

\* The store the requests are served on.
StoreAtStart == Registered(BaseTables, SeedRequests, 1, 1)

HasSent(r, statement) == \E k \in 1..Len(r.sent) : r.sent[k] = statement

\* C18: when a method served alone on a live connection has sent its BEGIN
\* and returned null, it has sent a ROLLBACK before returning and no
\* transaction is left open.
C18_NullMeansRolledBack ==
    (/\ connected
     /\ Len(requests) = 1
     /\ requests[1].pc = "done"
     /\ HasSent(requests[1], "BEGIN")
     /\ requests[1].res = Null)
    => HasSent(requests[1], "ROLLBACK") /\ ~inTransaction

\* The number of statements among these that the request r has sent.
SentCount(r, statements) ==
    Cardinality({k \in 1..Len(r.sent) : r.sent[k] \in statements})

\* C19: a registerNewApplication or submitApplicationDecision that has
\* returned OK has sent exactly one BEGIN and exactly one COMMIT, the COMMIT
\* being its last statement.
C19_OneBeginOneCommit ==
    \A i \in 1..Len(requests) :
        (/\ requests[i].op \in {"registerNewApplication", "submitApplicationDecision"}
         /\ ReturnedCode(requests[i], "OK"))
        => /\ SentCount(requests[i], BeginLabels) = 1
           /\ SentCount(requests[i], CommitLabels) = 1
           /\ requests[i].sent[Len(requests[i].sent)] \in CommitLabels

\* C20: the transactions of concurrent requests are serialized: the server
\* runs no statement of a request while the transaction another request
\* has opened is open.
C20_TransactionsSerialized ==
    [][ExecuteStatement => (inTransaction => txOwner = Head(queue))]_vars

\* C21: of two concurrent submitApplicationDecision requests for the same
\* Unhandled application, one with Accepted and one with Rejected, served
\* without a failure, one returns OK and the other returns ExistentDecision
\* with the decision of the first.
C21_ConcurrentDecisionsDecideOnce ==
    (/\ connected
     /\ failures = 0
     /\ Len(requests) = 2
     /\ \A i \in 1..2 : /\ requests[i].op = "submitApplicationDecision"
                        /\ requests[i].pc = "done"
     /\ requests[1].args.applicationID = requests[2].args.applicationID
     /\ requests[1].args.decision # requests[2].args.decision)
    => \E i, j \in 1..2 :
            /\ i # j
            /\ ReturnedCode(requests[i], "OK")
            /\ requests[j].res = [decision |-> requests[i].args.decision,
                                  errorCode |-> "ExistentDecision"]

\* ------------------------------------------------------------ C22
\* The code of the first check of submitApplicationDecision that fails for
\* these arguments on the store d, or OK when none fails.
FirstFailingDecisionCheck(d, username, applicationID, decision) ==
    IF ~KnownUsername(d, username) THEN "InvalidUsername"
    ELSE IF StatusRowsOf(d, applicationID) = {} THEN "InvalidApplication"
    ELSE IF \E r \in StatusRowsOf(d, applicationID) : r.decision # Unhandled
    THEN "ExistentDecision"
    ELSE IF decision \notin {Unhandled, Accepted, Rejected} THEN "InvalidDecision"
    ELSE "OK"

\* C22: a submitApplicationDecision call that reaches the store and fails a
\* check reports the first that fails in the order unknown username
\* (InvalidUsername), no status row (InvalidApplication), stored decision
\* not Unhandled (ExistentDecision), requested decision not one of the three
\* (InvalidDecision).
C22_FirstFailingCheckIsReported ==
    [][(/\ Called("submitApplicationDecision")
        /\ connected
        /\ FirstFailingDecisionCheck(db, last'.username, last'.applicationID,
                                     last'.decision) # "OK")
        => /\ last'.res # Null
           /\ last'.res.errorCode =
                FirstFailingDecisionCheck(db, last'.username, last'.applicationID,
                                          last'.decision)]_vars

\* An unknown username has submitted an invalid decision for an application
\* that does not exist, and was answered InvalidUsername.
C22_Witness ==
    /\ last.op = "submitApplicationDecision"
    /\ ~KnownUsername(db, last.username)
    /\ StatusRowsOf(db, last.applicationID) = {}
    /\ last.decision \notin {Unhandled, Accepted, Rejected}
    /\ last.res # Null
    /\ last.res.errorCode = "InvalidUsername"

\* ------------------------------------------------------------ C23
\* C23: a submitApplicationDecision call that reaches the store with a known
\* username, an application whose stored decision is Unhandled and a
\* requested decision of Accepted or Rejected returns that decision with
\* code OK; afterwards the application's status row holds the requested
\* decision and the caller's person id, and every other status row is as
\* it was.
C23_DecisionIsStored ==
    [][(/\ Called("submitApplicationDecision")
        /\ connected
        /\ KnownUsername(db, last'.username)
        /\ \E r \in StatusRowsOf(db, last'.applicationID) : r.decision = Unhandled
        /\ last'.decision \in {Accepted, Rejected})
        => /\ last'.res = [decision |-> last'.decision, errorCode |-> "OK"]
           /\ Len(db'.application_status) = Len(db.application_status)
           /\ \A i \in 1..Len(db.application_status) :
                db'.application_status[i] =
                    IF db.application_status[i].application_id = last'.applicationID
                    THEN [db.application_status[i] EXCEPT
                            !.decision = last'.decision,
                            !.recruiter_id = PersonOf(db, last'.username)]
                    ELSE db.application_status[i]]_vars

\* One of two applications has just been decided by a call that returned
\* OK, and the other is still Unhandled.
C23_Witness ==
    /\ last.op = "submitApplicationDecision"
    /\ last.res = [decision |-> last.decision, errorCode |-> "OK"]
    /\ last.decision \in {Accepted, Rejected}
    /\ \E r \in StatusRowsOf(db, last.applicationID) :
            r.decision = last.decision /\ r.recruiter_id = PersonOf(db, last.username)
    /\ \E i \in 1..Len(db.application_status) :
            /\ db.application_status[i].application_id # last.applicationID
            /\ db.application_status[i].decision = Unhandled

\* ------------------------------------------------------------ C24
\* C24: in every reachable state a status row has no recruiter exactly when
\* its decision is Unhandled.
C24_RecruiterUnsetIffUnhandled ==
    \A i \in 1..Len(db.application_status) :
        (db.application_status[i].decision = Unhandled)
            <=> (db.application_status[i].recruiter_id = SqlNull)

\* ------------------------------------------------------------ C25
\* C25: a registerNewApplication call that reaches the store reports the
\* first failing check in the order username, role, competence, duplicate:
\* an unknown username gets InvalidUsername with id 0, and an applicant who
\* names a competence that does not exist gets InvalidCompetence with id 0,
\* whatever applications the applicant holds.
C25_FirstFailingRegistrationCheck ==
    [][(Called("registerNewApplication") /\ connected)
        => /\ ~KnownUsername(db, last'.dto.username)
                => last'.res = [applicationID |-> 0, errorCode |-> "InvalidUsername"]
           /\ (/\ KnownUsername(db, last'.dto.username)
               /\ RoleOf(db, last'.dto.username) = Applicant
               /\ ~ExistingCompetence(db, last'.dto.competenceID))
                => last'.res = [applicationID |-> 0, errorCode |-> "InvalidCompetence"]]_vars

\* ------------------------------------------------------------ C26
\* The table now is the table before with the one row appended.
Appended(now, before, row) == now = Append(before, row)

IDSet(res) == {res.applications[i].applicationID : i \in 1..Len(res.applications)}

\* The filter with one more field set to its empty value.
Unset(dto) ==
    {[dto EXCEPT !.name = EmptyName], [dto EXCEPT !.competenceID = EmptyCompetenceID],
     [dto EXCEPT !.dateFrom = EmptyDate], [dto EXCEPT !.dateTo = EmptyDate]}

AllUnset(dto) ==
    /\ dto.name = EmptyName
    /\ dto.competenceID = EmptyCompetenceID
    /\ dto.dateFrom = EmptyDate
    /\ dto.dateTo = EmptyDate

\* C27: with the four filters at their empty values, the list for page 0
\* holds the applications owned by a person with role Applicant and no
\* other; and the list for a filter with one more field at its empty value
\* holds every application the list for the filter holds, in no fewer rows.
C27_EmptyFiltersKeepEveryApplicant ==
    (last.op = "getApplicationsList" /\ connected /\ last.dto.page = EmptyPage)
        => /\ last.res # Null
           /\ AllUnset(last.dto)
                => IDSet(last.res) =
                    {a \in ApplicationIDsOf(db) :
                        db.person[db.application[a].person_id].role_id = Applicant}
           /\ \A wider \in Unset(last.dto) :
                LET o == getApplicationsList(db, connected, inTransaction, wider)
                IN  /\ o.res # Null
                    /\ IDSet(last.res) \subseteq IDSet(o.res)
                    /\ Len(last.res.applications) <= Len(o.res.applications)

\* The list for the empty filter and page 0 has been returned on a store
\* where a recruiter and an applicant both own applications.
C27_Witness ==
    /\ last.op = "getApplicationsList"
    /\ last.dto.page = EmptyPage
    /\ AllUnset(last.dto)
    /\ last.res # Null
    /\ IDSet(last.res) # {}
    /\ \E a \in ApplicationIDsOf(db) :
            db.person[db.application[a].person_id].role_id = Recruiter

\* ------------------------------------------------------------ C28
KnownEmail(d, email) ==
    \E i \in 1..Len(d.login_info) : d.login_info[i].email = email

\* C28: a signupUser call that reaches the store with an email some
\* credential has returns ExistentEmail, also when the username is taken
\* too; with a free email and a username some credential has it returns
\* ExistentUsername; both with role Invalid and without inserting a row.
C28_TakenEmailThenTakenUsername ==
    [][(Called("signupUser") /\ connected)
        => /\ KnownEmail(db, last'.dto.email)
                => /\ last'.res = [username |-> last'.dto.username,
                                   roleID |-> Invalid, errorCode |-> "ExistentEmail"]
                   /\ db' = db
           /\ (~KnownEmail(db, last'.dto.email) /\ KnownUsername(db, last'.dto.username))
                => /\ last'.res = [username |-> last'.dto.username,
                                   roleID |-> Invalid, errorCode |-> "ExistentUsername"]
                   /\ db' = db]_vars

\* A signup with a taken email and a taken username has been answered
\* ExistentEmail.
C28_Witness ==
    /\ last.op = "signupUser"
    /\ KnownEmail(db, last.dto.email)
    /\ KnownUsername(db, last.dto.username)
    /\ last.res # Null
    /\ last.res.errorCode = "ExistentEmail"

\* ------------------------------------------------------------ C29
\* C29: no call of a public operation changes a field of an existing
\* person, and the only persons a call adds are added by signupUser with
\* role Applicant.
C29_PersonsAreApplicantsAndImmutable ==
    [][/\ Len(db'.person) >= Len(db.person)
       /\ \A i \in 1..Len(db.person) : db'.person[i] = db.person[i]
       /\ \A i \in (Len(db.person) + 1)..Len(db'.person) :
            /\ last'.op = "signupUser"
            /\ db'.person[i].role_id = Applicant]_vars

\* A signup has returned OK and the person it added is an applicant.
C29_Witness ==
    /\ last.op = "signupUser"
    /\ last.res # Null
    /\ last.res.errorCode = "OK"
    /\ Len(db.person) > Len(BaseTables.person)
    /\ db.person[Len(db.person)].role_id = Applicant
    /\ db.person[Len(db.person)].id = PersonOf(db, last.dto.username)

\* ------------------------------------------------------------ C30
\* C30: a registerNewApplication or submitApplicationDecision call that
\* returns a result with a code other than OK leaves every table as it was.
C30_DomainErrorsChangeNothing ==
    [][(/\ Called("registerNewApplication") \/ Called("submitApplicationDecision")
        /\ last'.res # Null
        /\ last'.res.errorCode # "OK")
        => db' = db]_vars

\* An invalid decision for an Unhandled application has been answered
\* InvalidDecision and the application is still Unhandled, without recruiter.
C30_Witness ==
    /\ last.op = "submitApplicationDecision"
    /\ last.res # Null
    /\ last.res.errorCode = "InvalidDecision"
    /\ last.decision \notin {Unhandled, Accepted, Rejected}
    /\ \E r \in StatusRowsOf(db, last.applicationID) :
            r.decision = Unhandled /\ r.recruiter_id = SqlNull

\* ------------------------------------------------------------ C31
ReadOperations ==
    {"signinUser", "getJobs", "getApplicationsList", "getPageCount", "getApplication"}

\* C31: a call of signinUser, getJobs, listApplications,
\* getApplicationsPageCount or getApplication leaves every table as it was,
\* whatever its arguments and its outcome.
C31_ReadsChangeNothing ==
    [][(last' # last /\ last'.op \in ReadOperations) => db' = db]_vars

\* getApplication has returned null on a live connection (the id is not
\* positive) and the application the store holds is still there.
C31_Witness ==
    /\ last.op = "getApplication"
    /\ connected
    /\ last.res = Null
    /\ db = StoreAtStart
    /\ Len(db.application) > 0

\* ------------------------------------------------------------ C32
\* C32: the application ids in a list that listApplications returns are
\* strictly ascending, so that no application is listed twice.
C32_IdsStrictlyAscending ==
    (last.op = "getApplicationsList" /\ connected /\ last.res # Null)
        => \A i, j \in 1..Len(last.res.applications) :
                i < j => last.res.applications[i].applicationID
                            < last.res.applications[j].applicationID

\* ------------------------------------------------------------ C33
\* The list getApplicationsList returns for the filter and the page k.
PageOf(d, dto, k) == getApplicationsList(d, TRUE, FALSE, [dto EXCEPT !.page = k]).res

\* The lists for the pages k .. n one after another.
RECURSIVE ConcatPages(_, _, _, _)
ConcatPages(d, dto, k, n) ==
    IF k > n THEN <<>>
    ELSE PageOf(d, dto, k).applications \o ConcatPages(d, dto, k + 1, n)

\* C33: for the store and the filter of a page count n just returned, the
\* lists for the pages 1 .. n one after another are the list for page 0,
\* every page but the last has 25 rows and the last has 1 to 25 rows.
C33_PagesPartitionTheList ==
    (last.op = "getPageCount" /\ connected)
        => /\ last.res # Null
           /\ PageOf(db, last.dto, EmptyPage) # Null
           /\ LET n == last.res.pageCount
              IN  /\ \A k \in 1..n : PageOf(db, last.dto, k) # Null
                  /\ ConcatPages(db, last.dto, 1, n)
                        = PageOf(db, last.dto, EmptyPage).applications
                  /\ \A k \in 1..(n - 1) :
                        Len(PageOf(db, last.dto, k).applications) = PAGELIMIT
                  /\ n >= 1 =>
                        Len(PageOf(db, last.dto, n).applications) \in 1..PAGELIMIT

\* A page count of two or more has been returned for a list whose last
\* page is not full.
C33_Witness ==
    /\ last.op = "getPageCount"
    /\ last.res # Null
    /\ last.res.pageCount >= 2
    /\ Len(PageOf(db, last.dto, last.res.pageCount).applications) < PAGELIMIT
    /\ Len(PageOf(db, last.dto, EmptyPage).applications) > PAGELIMIT

\* ------------------------------------------------------------ C34
\* C34: getApplication for an application that was registered with the
\* competence c, y years and the window [f, t] returns code OK with c, y,
\* the stored decision (Unhandled until one is submitted) and the window
\* [f, t] of that registration, whatever else its owner has registered.
C34_DetailShowsOwnRegistration ==
    [][(/\ Called("getApplication")
        /\ connected
        /\ last'.applicationID \in ApplicationIDsOf(db))
        => /\ last'.res # Null
           /\ last'.res.errorCode = "OK"
           /\ last'.res.applicationID = last'.applicationID
           /\ last'.res.competence.id = db.application[last'.applicationID].competence_id
           /\ last'.res.yearsOfExperience
                = db.application[last'.applicationID].years_of_experience
           /\ \E r \in StatusRowsOf(db, last'.applicationID) :
                last'.res.decision = r.decision
           /\ <<last'.res.dateFrom, last'.res.dateTo>>
                \in RegisteredWindows(db, last'.applicationID)]_vars

SignedUp(d, username, password) ==
    \E i \in (Len(BaseTables.login_info) + 1)..Len(d.login_info) :
        /\ d.login_info[i].username = username
        /\ d.login_info[i].password = _generatePasswordHash(username, password)

HasCredential(d, username) ==
    \E i \in 1..Len(d.login_info) : d.login_info[i].username = username

\* C36: after signupUser has returned OK for the username u with the
\* password p, signinUser(u, p) returns the code OK with the username u and
\* the role Applicant, and signinUser for a username that has no credential
\* returns LoginFailure with the role Invalid (calls served over a live
\* connection).  A signup that returns OK has stored the credential;
\* credentials are never removed.
C36_SigninAfterSignup ==
    [][/\ (Called("signupUser") /\ last'.res # Null /\ last'.res.errorCode = "OK")
            => /\ ~HasCredential(db, last'.dto.username)
               /\ SignedUp(db', last'.dto.username, last'.dto.password)
       /\ (Called("signinUser") /\ connected)
            => /\ SignedUp(db, last'.username, last'.password)
                    => last'.res = [username |-> last'.username,
                                    roleID |-> Applicant, errorCode |-> "OK"]
               /\ ~HasCredential(db, last'.username)
                    => last'.res = [username |-> last'.username,
                                    roleID |-> Invalid,
                                    errorCode |-> "LoginFailure"]
       /\ \A u \in Usernames, pw \in Passwords :
                SignedUp(db, u, pw) => SignedUp(db', u, pw)]_vars

\* zed, who signed up with the password pw, has signed in with it and got
\* OK as an applicant.
C36_Witness ==
    /\ last.op = "signinUser"
    /\ connected
    /\ last.username = "zed"
    /\ last.password = "pw"
    /\ SignedUp(db, "zed", "pw")
    /\ last.res = [username |-> "zed", roleID |-> Applicant, errorCode |-> "OK"]

====
